---- MODULE Spec2Model ----
(***************************************************************************)
(* State-machine model of src/player.js: the Player object (current index *)
(* into a fixed playlist, lazily created per-track Howl handles), the DOM *)
(* fields it drives, the animation-frame queue of step callbacks and the  *)
(* timer queue on which the Howl handles deliver their callbacks.         *)
(*                                                                         *)
(* The Howl handle is the external Playback Handle Provider.  It is       *)
(* modelled with one sound per handle and with the provider's contract:   *)
(* a new handle starts loading at once; play/pause/stop/seek requested    *)
(* while the handle is loading, or while a play request is in flight      *)
(* (the play lock of HTML5 audio), are queued and run later; lifecycle    *)
(* callbacks are delivered on a zero-delay timer, never synchronously.    *)
(* A playback position is "start" (0 seconds) or "later" (any other).     *)
(*                                                                         *)
(* Of the DOM, the model keeps what the handlers of the transport decide  *)
(* on: the two transport buttons, the loading indicator, the title and    *)
(* the progress bar.  The texts of the timer and duration elements and    *)
(* the wave/bar pair are written by the handlers and read by none; they   *)
(* are left out, and so are the onpause and onstop callbacks, which write *)
(* the wave/bar pair only.                                                *)
(*                                                                         *)
(* The volume slider (the drag flag, the global volume, the thumb's left  *)
(* offset, the viewport width) and the two panels (playlist, volume: the  *)
(* inline display, the class and the pending setTimeout timers of each)   *)
(* have their own variables and their own specifications; SpecFrame runs  *)
(* every listener of the page together.  Volumes and pixel offsets are    *)
(* exact fractions.  A zero-delay timer may fire before a 500ms timer     *)
(* that was set earlier; timers of equal delay fire in the order set.     *)
(***************************************************************************)
EXTENDS Integers, Sequences, FiniteSets, TLC

\* ---------------------------------------------------------------- bounds
\* tasks a handle may have queued
MaxQueue == 2
\* zero-delay timers pending
MaxTimers == 1
\* step callbacks pending on the animation-frame queue
MaxRaf == 2
\* user interactions in one run
MaxClicks == 2
\* largest argument given to formatTime
MaxSecs == 3700

\* the playlist handed to new Player: the titles of its first entries
playlist == <<"I", "II", "III">>

NumTracks == Len(playlist)

Tracks == 0 .. (NumTracks - 1)

VARIABLES
  index,        \* Player.index
  howl,         \* playlist[i].howl: NoHowl or a handle record
  made,         \* number of `new Howl` constructions per track
  timers,       \* zero-delay timer queue (FIFO) of handle callbacks
  raf,          \* number of step callbacks pending on requestAnimationFrame
  playBtn, pauseBtn, loading,   \* style.display of the DOM elements
  track,        \* track.innerHTML
  progress,     \* progress.style.width: "0%" or "some%"
  threw,        \* the last handler ended in an uncaught TypeError
  clicks,       \* number of user interactions so far
  last,         \* the step that ran last, with its argument
  fmtIn, fmtOut, \* argument and result of a formatTime call
  innerWidth,   \* window.innerWidth, in pixels
  sliderDown,   \* window.sliderDown
  vol,          \* the global volume kept by Howler, a fraction
  sliderLeft,   \* sliderBtn.style.left in pixels: <<>> or <<a fraction>>
  volArg,       \* the argument of the last volume call: <<>> or <<a fraction>>
  panel         \* style.display, className and pending timers of each panel

vars == <<index, howl, made, timers, raf, playBtn, pauseBtn, loading,
          track, progress, threw, clicks, last, fmtIn, fmtOut,
          innerWidth, sliderDown, vol, sliderLeft, volArg, panel>>

\* the volume slider
slider == <<innerWidth, sliderDown, vol, sliderLeft, volArg>>

player == <<index, howl, made, timers, raf, playBtn, pauseBtn, loading,
            track, progress>>

\* ------------------------------------------------------------ formatTime
Digit(d) == CASE d = 0 -> "0" [] d = 1 -> "1" [] d = 2 -> "2" [] d = 3 -> "3"
              [] d = 4 -> "4" [] d = 5 -> "5" [] d = 6 -> "6" [] d = 7 -> "7"
              [] d = 8 -> "8" [] d = 9 -> "9"

RECURSIVE NumToString(_)
\* JavaScript's string conversion of a non-negative integer
NumToString(n) == IF n < 10 THEN <<Digit(n)>>
                  ELSE NumToString(n \div 10) \o <<Digit(n % 10)>>

formatTimePadLe(secs) ==
  LET minutes == secs \div 60
      seconds == secs - minutes * 60
  IN  NumToString(minutes) \o <<":">>
        \o (IF seconds <= 10 THEN <<"0">> ELSE <<>>) \o NumToString(seconds)

formatTime(secs) ==
  LET minutes == secs \div 60
      seconds == secs - minutes * 60
  IN  NumToString(minutes) \o <<":">>
        \o (IF seconds < 10 THEN <<"0">> ELSE <<>>) \o NumToString(seconds)

\* ------------------------------------------------------- the Howl handle
NoHowl == [state |-> "none"]

Task(e, a) == [event |-> e, arg |-> a]

\* new Howl({...}): preloads at once, nothing playing
NewHowl == [state |-> "loading", paused |-> TRUE, lock |-> FALSE,
            internal |-> FALSE, q |-> <<>>, pos |-> "start"]

\* the result of a handle operation: the handle and the events it emitted
Res(h, ev) == [h |-> h, ev |-> ev]

Emit(r, e) == [r EXCEPT !.ev = Append(@, e)]

RECURSIVE LoadQueue(_, _)
RECURSIVE RunTask(_, _)

\* Howl._loadQueue(event): a matching event retires the head task and runs
\* the next one; without an event the head task's action runs
LoadQueue(r, event) ==
  IF Len(r.h.q) = 0 THEN r
  ELSE IF event = "none" THEN RunTask(r, Head(r.h.q))
  ELSE IF Head(r.h.q).event = event
       THEN LoadQueue([r EXCEPT !.h.q = Tail(@)], "none")
       ELSE r

\* the body of play on a loaded handle: the play request is in flight
StartPlay(h, internal) ==
  [h EXCEPT !.paused = FALSE, !.lock = TRUE, !.internal = internal]

\* the body of stop on a loaded, unlocked handle
StopBody(r) ==
  LoadQueue(Emit([r EXCEPT !.h.paused = TRUE, !.h.pos = "start"], "stop"),
            "stop")

\* the body of pause on a loaded, unlocked handle
PauseBody(r) ==
  LoadQueue(Emit([r EXCEPT !.h.paused = TRUE], "pause"), "pause")

\* the body of seek(pos) on a loaded, unlocked handle: a playing sound is
\* interrupted and resumed from a timer, a silent one is moved at once
SeekBody(r, p) ==
  IF ~r.h.paused
  THEN Emit([r EXCEPT !.h.paused = TRUE, !.h.pos = p], "emitSeek")
  ELSE LoadQueue(Emit([r EXCEPT !.h.pos = p], "seek"), "seek")

RunTask(r, task) ==
  CASE task.event = "play" ->
         IF r.h.paused THEN [r EXCEPT !.h = StartPlay(@, FALSE)]
         ELSE LoadQueue(r, "play")
    [] task.event = "stop" -> StopBody(r)
    [] task.event = "pause" -> PauseBody(r)
    [] task.event = "seek" -> SeekBody(r, task.arg)

Deferred(h) == h.state # "loaded" \/ h.lock

Defer(h, task) == Res([h EXCEPT !.q = Append(@, task)], <<>>)

\* Howl.play()
HowlPlay(h) ==
  IF h.state # "loaded" THEN Defer(h, Task("play", "start"))
  ELSE Res(StartPlay(h, FALSE), <<>>)

\* Howl.pause()
HowlPause(h) ==
  IF Deferred(h) THEN Defer(h, Task("pause", "start")) ELSE PauseBody(Res(h, <<>>))

\* Howl.stop()
HowlStop(h) ==
  IF Deferred(h) THEN Defer(h, Task("stop", "start")) ELSE StopBody(Res(h, <<>>))

\* Howl.seek(pos)
HowlSeek(h, p) ==
  IF Deferred(h) THEN Defer(h, Task("seek", p)) ELSE SeekBody(Res(h, <<>>), p)

\* Howl.playing()
HowlPlaying(h) == h.state # "none" /\ ~h.paused

\* Howl.state()
HowlState(h) == h.state

\* Howl.duration() is 0 until the audio has loaded
HowlHasDuration(h) == h.state = "loaded"

\* the timer entries for the events handle i emitted (pause and stop reach
\* onpause and onstop, which change nothing the model keeps)
Stamp(i, ev) ==
  LET heard == SelectSeq(ev, LAMBDA e : e \notin {"pause", "stop"})
  IN [k \in 1 .. Len(heard) |-> [ev |-> heard[k], i |-> i]]

\* playlist[idx].howl, where a missing entry makes the handler throw
Sound(hw, idx) == IF idx \in Tracks THEN hw[idx] ELSE NoHowl

Playing(i) == HowlPlaying(howl[i])

CurPlaying == HowlPlaying(Sound(howl, index))

\* ------------------------------------------------------------ the Player
\* the player's state as a record, so that a handler's statements compose
Cur == [index |-> index, howl |-> howl, made |-> made, timers |-> timers,
        raf |-> raf, playBtn |-> playBtn, pauseBtn |-> pauseBtn,
        loading |-> loading, track |-> track, progress |-> progress,
        threw |-> FALSE]

\* an uncaught TypeError ends the handler where it stands
Throw(s) == [s EXCEPT !.threw = TRUE]

\* apply the result of a handle operation on track i
Put(s, i, r) ==
  [s EXCEPT !.howl[i] = r.h, !.timers = @ \o Stamp(i, r.ev)]

\* play: index = typeof index === 'number' ? index : self.index
\* (the argument is <<>> when play is called without one)
PlayTargetFirst(arg, selfIndex) == IF arg = <<>> THEN 0 ELSE arg[1]

PlayTarget(arg, selfIndex) == IF arg = <<>> THEN selfIndex ELSE arg[1]

\* play: if (data.howl) reuses the handle, otherwise a new Howl is set up
HasHowlNever(h) == FALSE

HasHowl(h) == h # NoHowl

\* play: self.index = index
KeepIndexNext(idx) == idx + 1

KeepIndexFirst(idx) == 0

KeepIndex(idx) == idx

\* Player.prototype.play
play(s, arg) ==
  LET idx == PlayTarget(arg, s.index) IN
  IF idx \notin Tracks THEN Throw(s)
  ELSE
    LET fresh == ~HasHowl(s.howl[idx])
        h0 == IF fresh THEN NewHowl ELSE s.howl[idx]
        s1 == IF fresh THEN [s EXCEPT !.made[idx] = @ + 1] ELSE s
        s2 == Put(s1, idx, HowlPlay(h0))
        s3 == [s2 EXCEPT !.track = playlist[idx + 1]]
        s4 == IF HowlState(s3.howl[idx]) = "loaded"
              THEN [s3 EXCEPT !.playBtn = "none", !.pauseBtn = "block"]
              ELSE [s3 EXCEPT !.loading = "block", !.playBtn = "none",
                              !.pauseBtn = "none"]
    IN [s4 EXCEPT !.index = KeepIndex(idx)]

\* Player.prototype.pause
pause(s) ==
  LET sound == Sound(s.howl, s.index) IN
  IF sound = NoHowl THEN Throw(s)
  ELSE [Put(s, s.index, HowlPause(sound))
          EXCEPT !.playBtn = "block", !.pauseBtn = "none"]

\* skip: the target index, wrapping at both ends
SkipIndexNoWrap(direction, idx) ==
  IF direction = "prev" THEN (IF idx - 1 < 0 THEN 0 ELSE idx - 1)
  ELSE (IF idx + 1 >= NumTracks THEN NumTracks - 1 ELSE idx + 1)

SkipIndex(direction, idx) ==
  IF direction = "prev"
  THEN (IF idx - 1 < 0 THEN NumTracks - 1 ELSE idx - 1)
  ELSE (IF idx + 1 >= NumTracks THEN 0 ELSE idx + 1)

\* skipTo: self.play(index) creates the handle before the index moves
skipToNoPlay(s, idx) == [s EXCEPT !.progress = "0%", !.index = idx]

\* Player.prototype.skipTo
skipTo(s, idx) ==
  IF s.index \notin Tracks THEN Throw(s)
  ELSE
    LET cur == s.howl[s.index]
        s1 == IF HasHowl(cur) THEN Put(s, s.index, HowlStop(cur)) ELSE s
        s2 == [s1 EXCEPT !.progress = "0%"]
    IN play(s2, <<idx>>)

\* Player.prototype.skip
skip(s, direction) == skipTo(s, SkipIndex(direction, s.index))

\* seek: if (sound.playing())
SeekApplies(sound) == HowlPlaying(sound)

\* seek: sound.duration() * per, for per = 0 ("start") or per > 0 ("later")
SeekPosition(sound, per) == IF HowlHasDuration(sound) THEN per ELSE "start"

\* Player.prototype.seek
seek(s, per) ==
  LET sound == Sound(s.howl, s.index) IN
  IF sound = NoHowl THEN Throw(s)
  ELSE IF SeekApplies(sound)
       THEN Put(s, s.index, HowlSeek(sound, SeekPosition(sound, per)))
       ELSE s

\* step: progress.style.width = (((seek / sound.duration()) * 100) || 0) + '%'
StepProgress(sound) ==
  IF HowlHasDuration(sound) /\ sound.pos # "start" THEN "some%" ELSE "0%"

\* step: if (sound.playing()) requestAnimationFrame(...)
StepContinuesAlways(sound) == TRUE

StepContinuesLoaded(sound) == HowlState(sound) = "loaded"

StepContinues(sound) == HowlPlaying(sound)

\* Player.prototype.step, run from the animation-frame queue
step(s) ==
  LET s0 == [s EXCEPT !.raf = @ - 1]
      sound == Sound(s.howl, s.index)
  IN
  IF sound = NoHowl THEN Throw(s0)
  ELSE
    LET s1 == [s0 EXCEPT !.progress = StepProgress(sound)]
    IN IF StepContinues(sound) THEN [s1 EXCEPT !.raf = @ + 1] ELSE s1

\* onend: self.skip('next')
OnEndDirectionPrev == "prev"

OnEndDirection == "next"

\* the callbacks given to new Howl for track i
onplay(s, i) == [s EXCEPT !.raf = @ + 1, !.pauseBtn = "block"]

onload(s, i) == [s EXCEPT !.loading = "none"]

onend(s, i) == skip(s, OnEndDirection)

onseek(s, i) == [s EXCEPT !.raf = @ + 1]

\* the handle's own timer after seek on a playing sound: it waits for the
\* play lock, then emits seek and resumes playback
emitSeek(s, i) ==
  LET h == s.howl[i] IN
  IF h.lock THEN [s EXCEPT !.timers = Append(@, [ev |-> "emitSeek", i |-> i])]
  ELSE LET r == LoadQueue(Emit(Res(h, <<>>), "seek"), "seek")
           r2 == IF r.h.paused THEN [r EXCEPT !.h = StartPlay(@, TRUE)] ELSE r
       IN Put(s, i, r2)

Callback(s, t) ==
  CASE t.ev = "play" -> onplay(s, t.i)
    [] t.ev = "load" -> onload(s, t.i)
    [] t.ev = "end" -> onend(s, t.i)
    [] t.ev = "seek" -> onseek(s, t.i)
    [] t.ev = "emitSeek" -> emitSeek(s, t.i)

\* the bounds of the model: queues and counters stay within their caps
Within(s) ==
  /\ Len(s.timers) <= MaxTimers
  /\ s.raf <= MaxRaf
  /\ \A i \in Tracks : s.howl[i] # NoHowl => Len(s.howl[i].q) <= MaxQueue

\* the handler's result becomes the next state
Apply(result) ==
  \E s \in {result} :
    /\ Within(s)
    /\ index' = s.index /\ howl' = s.howl /\ made' = s.made
    /\ timers' = s.timers /\ raf' = s.raf
    /\ playBtn' = s.playBtn /\ pauseBtn' = s.pauseBtn
    /\ loading' = s.loading
    /\ track' = s.track
    /\ progress' = s.progress /\ threw' = s.threw
    /\ UNCHANGED <<fmtIn, fmtOut, slider, panel>>

\* a handler run by a user interaction, of which a run has at most MaxClicks
Click(s, op, arg) ==
  /\ clicks < MaxClicks /\ clicks' = clicks + 1
  /\ last' = <<op, arg>>
  /\ Apply(s)

\* a handler run by the browser: a callback of a handle or of a frame
Event(s, op, arg) == UNCHANGED clicks /\ last' = <<op, arg>> /\ Apply(s)

\* a step of a handle, which runs no handler of the player
Handle(s) == UNCHANGED clicks /\ last' = <<"handle", "">> /\ Apply(s)

\* ------------------------------------------------------ the volume slider
RECURSIVE GCD(_, _)
GCD(a, b) == IF b = 0 THEN a ELSE GCD(b, a % b)

\* a number n / d with d > 0, in lowest terms: pixel offsets and volumes are
\* not integers
Frac(n, d) ==
  LET g == GCD(IF n < 0 THEN -n ELSE n, d)
  IN [n |-> n \div g, d |-> d \div g]

LeFrac(a, b) == a.n * b.d <= b.n * a.d

\* 0 <= v <= 1
InUnit(v) == 0 <= v.n /\ v.n <= v.d

\* Howler.volume(val): the global volume, set when val is within [0, 1]
HowlerVolume(v, val) == IF InUnit(val) THEN val ELSE v

\* Howl.volume(): the handle's own volume, which the player never sets
HowlVolume(h) == Frac(1, 1)

\* volume: barWidth = (val * 90) / 100
BarWidthFull(val) == Frac(100 * val.n, 100 * val.d)

BarWidth(val) == Frac(90 * val.n, 100 * val.d)

\* window.innerWidth * barWidth + window.innerWidth * 0.05 - 25
SliderLeft(w, barWidth) ==
  Frac(20 * w * barWidth.n + w * barWidth.d - 500 * barWidth.d,
       20 * barWidth.d)

\* the slider's state as a record
CurSlider == [innerWidth |-> innerWidth, vol |-> vol,
              sliderLeft |-> sliderLeft, volArg |-> volArg, threw |-> FALSE]

\* Player.prototype.volume (the width of barFull, which nothing reads, is
\* left out)
volume(s, val) ==
  [s EXCEPT !.vol = HowlerVolume(@, val),
            !.sliderLeft = <<SliderLeft(s.innerWidth, BarWidth(val))>>,
            !.volArg = <<val>>]

\* move: x = event.clientX || event.touches[0].clientX, where a mouse event
\* has no touches: <<x>>, or <<>> for the TypeError
MoveX(e) ==
  IF e.type = "mousemove" /\ e.x = 0 THEN <<>> ELSE <<e.x>>

\* move: Math.min(1, Math.max(0, per))
ClampUnitLow(v) == IF v.n <= 0 THEN Frac(0, 1) ELSE v

ClampUnit(v) ==
  IF v.n <= 0 THEN Frac(0, 1) ELSE IF v.n >= v.d THEN Frac(1, 1) ELSE v

\* move: layerX / parseFloat(barEmpty.scrollWidth), layerX = x - innerWidth * 0.05
MovePer(x, w, scrollWidth) == Frac(20 * x - w, 20 * scrollWidth)

\* the move listener of the volume panel
move(s, down, e, scrollWidth) ==
  IF ~down THEN s
  ELSE IF MoveX(e) = <<>> THEN [s EXCEPT !.threw = TRUE]
  ELSE volume(s, ClampUnit(MovePer(MoveX(e)[1], s.innerWidth, scrollWidth)))

\* the resize listener of the window, for a viewport that is now w wide
resize(s, w, sound) ==
  LET s1 == [s EXCEPT !.innerWidth = w] IN
  IF sound # NoHowl
  THEN [s1 EXCEPT !.sliderLeft = <<SliderLeft(w, BarWidth(HowlVolume(sound)))>>]
  ELSE s1

\* ------------------------------------------------------------ the panels
Panels == {"playlist", "volume"}

\* a panel before any toggle: no inline display, no class, no timer
NewPanel == [display |-> "", className |-> "", timers |-> <<>>]

\* toggle: display = (style.display === 'block') ? 'none' : 'block'
ToggleDisplay(display) == IF display = "block" THEN "none" ELSE "block"

\* toggle: the delay of the timer, (display === 'block') ? 0 : 500
ToggleDelayNone(display) == 0

ToggleDelay(display) == IF display = "block" THEN 0 ELSE 500

\* toggle: className = (display === 'block') ? 'fadein' : 'fadeout'
ToggleClass(display) == IF display = "block" THEN "fadein" ELSE "fadeout"

\* the body shared by togglePlaylist and toggleVolume, on one panel
toggle(pn) ==
  LET display == ToggleDisplay(pn.display) IN
  [pn EXCEPT !.timers = Append(@, [delay |-> ToggleDelay(display),
                                   display |-> display]),
             !.className = ToggleClass(display)]

\* Player.prototype.togglePlaylist
togglePlaylist(ps) == [ps EXCEPT !["playlist"] = toggle(@)]

\* Player.prototype.toggleVolume
toggleVolume(ps) == [ps EXCEPT !["volume"] = toggle(@)]

\* the k-th pending timer is due first: every timer set before it has a
\* longer delay (a timer set earlier with the same delay fires earlier)
DueFirst(ts, k) == \A j \in 1 .. (k - 1) : ts[j].delay > ts[k].delay

Without(ts, k) == SubSeq(ts, 1, k - 1) \o SubSeq(ts, k + 1, Len(ts))

\* the timer callback: style.display = display
timeout(pn, k) ==
  [pn EXCEPT !.display = pn.timers[k].display, !.timers = Without(@, k)]

\* ---------------------------------------------------------------- actions
Init ==
  /\ index = 0
  /\ howl = [i \in Tracks |-> NoHowl]
  /\ made = [i \in Tracks |-> 0]
  /\ timers = <<>>
  /\ raf = 0
  /\ playBtn = "block" /\ pauseBtn = "none" /\ loading = "none"
  /\ track = "" /\ progress = "0%"
  /\ threw = FALSE
  /\ clicks = 0
  /\ last = <<"init", "">>
  /\ fmtIn = 0 /\ fmtOut = <<>>
  /\ innerWidth = 1024 /\ sliderDown = FALSE /\ vol = Frac(1, 1)
  /\ sliderLeft = <<>> /\ volArg = <<>>
  /\ panel = [p \in Panels |-> NewPanel]

\* playBtn click
Play == Click(play(Cur, <<>>), "play", "")

\* pauseBtn click
Pause == Click(pause(Cur), "pause", "")

\* nextBtn / prevBtn click
Skip(d) == Click(skip(Cur, d), "skip", d)

\* click on the playlist entry of track i
SkipTo(i) == Click(skipTo(Cur, i), "skipTo", playlist[i + 1])

\* waveform click
Seek(per) == Click(seek(Cur, per), "seek", per)

\* an animation frame runs one pending step callback
Step == raf > 0 /\ Event(step(Cur), "step", "")

\* the zero-delay timer at the head of the queue fires
Fire ==
  /\ timers # <<>>
  /\ Event(Callback([Cur EXCEPT !.timers = Tail(@)], Head(timers)),
           Head(timers).ev, playlist[Head(timers).i + 1])

\* the audio of track i becomes playable: the handle is loaded, emits load
\* and runs its queue
Load(i) ==
  /\ howl[i].state = "loading"
  /\ Handle(Put(Cur, i, LoadQueue(Emit(Res([howl[i] EXCEPT !.state = "loaded"],
                                          <<>>), "load"), "none")))

\* the browser grants the play request of track i: the lock is released,
\* play is emitted (unless the play was the handle's own) and the queue runs
Resolve(i) ==
  /\ howl[i].state = "loaded" /\ howl[i].lock
  /\ LET h == [howl[i] EXCEPT !.lock = FALSE, !.internal = FALSE]
         r == IF howl[i].internal THEN LoadQueue(Res(h, <<>>), "none")
              ELSE LoadQueue(Emit(Res(h, <<>>), "play"), "play")
     IN Handle(Put(Cur, i, r))

\* the audio of track i plays to its end
End(i) ==
  /\ howl[i].state = "loaded" /\ ~howl[i].paused /\ ~howl[i].lock
  /\ Handle(Put(Cur, i, LoadQueue(Emit(Res([howl[i] EXCEPT !.paused = TRUE,
                                                          !.pos = "start"], <<>>),
                                      "end"), "end")))

\* playback of track i advances
Tick(i) ==
  /\ howl[i].state = "loaded" /\ ~howl[i].paused /\ ~howl[i].lock
  /\ howl[i].pos = "start"
  /\ Handle([Cur EXCEPT !.howl[i].pos = "later"])

Next ==
  \/ Play
  \/ Pause
  \/ \E d \in {"next", "prev"} : Skip(d)
  \/ \E i \in Tracks : SkipTo(i)
  \/ \E per \in {"start", "later"} : Seek(per)
  \/ Step
  \/ Fire
  \/ \E i \in Tracks : Load(i)
  \/ \E i \in Tracks : Resolve(i)
  \/ \E i \in Tracks : End(i)
  \/ \E i \in Tracks : Tick(i)

Spec == Init /\ [][Next]_vars

\* the animation-frame queue is served: a pending step callback runs
SpecFair == Spec /\ WF_vars(Step)

\* formatTime on its own: one call with any number of seconds up to MaxSecs
FormatTime ==
  /\ last = <<"init", "">>
  /\ \E secs \in 0 .. MaxSecs : fmtIn' = secs /\ fmtOut' = formatTime(secs)
  /\ UNCHANGED <<player, threw, clicks, slider, panel>>
  /\ last' = <<"formatTime", "">>

SpecFormat == Init /\ [][FormatTime]_vars

\* ------------------------------------------- actions of the volume slider
\* viewport widths, pointer positions and widths of the empty bar, in pixels
Widths == {320, 500, 1024}

Xs == {0, 16, 100, 400, 2000}

ScrollWidths == {288, 900}

MoveEvents == [type : {"mousemove", "touchmove"}, x : Xs]

\* the slider handler's result becomes the next state
ApplySlider(s) ==
  /\ innerWidth' = s.innerWidth /\ vol' = s.vol
  /\ sliderLeft' = s.sliderLeft /\ volArg' = s.volArg /\ threw' = s.threw

\* a step of the slider or of a panel leaves the transport alone
Aside(op, arg) ==
  last' = <<op, arg>> /\ UNCHANGED <<player, fmtIn, fmtOut>>

\* sliderBtn mousedown / touchstart
OnPress(type) ==
  /\ sliderDown' = TRUE /\ ApplySlider(CurSlider)
  /\ Aside("press", type) /\ UNCHANGED panel

\* volume mouseup / touchend
OnRelease(type) ==
  /\ sliderDown' = FALSE /\ ApplySlider(CurSlider)
  /\ Aside("release", type) /\ UNCHANGED panel

\* volume mousemove / touchmove
OnMove(e, scrollWidth) ==
  /\ ApplySlider(move(CurSlider, sliderDown, e, scrollWidth))
  /\ Aside("move", e.type) /\ UNCHANGED <<sliderDown, panel>>

\* barEmpty click: player.volume(event.layerX / parseFloat(barEmpty.scrollWidth))
OnBarClick(layerX, scrollWidth) ==
  /\ ApplySlider(volume(CurSlider, Frac(layerX, scrollWidth)))
  /\ Aside("barClick", "") /\ UNCHANGED <<sliderDown, panel>>

\* window resize
OnResize(w) ==
  /\ w # innerWidth
  /\ ApplySlider(resize(CurSlider, w, Sound(howl, index)))
  /\ Aside("resize", "") /\ UNCHANGED <<sliderDown, panel>>

Press(type) == OnPress(type) /\ UNCHANGED clicks

Release(type) == OnRelease(type) /\ UNCHANGED clicks

Move(e, scrollWidth) == OnMove(e, scrollWidth) /\ UNCHANGED clicks

BarClick(layerX, scrollWidth) == OnBarClick(layerX, scrollWidth) /\ UNCHANGED clicks

Resize(w) == OnResize(w) /\ UNCHANGED clicks

NextVolume ==
  \/ \E type \in {"mousedown", "touchstart"} : Press(type)
  \/ \E type \in {"mouseup", "touchend"} : Release(type)
  \/ \E e \in MoveEvents, scrollWidth \in ScrollWidths : Move(e, scrollWidth)
  \/ \E scrollWidth \in ScrollWidths :
       \E layerX \in {0, scrollWidth \div 2, scrollWidth} :
         BarClick(layerX, scrollWidth)
  \/ \E w \in Widths : Resize(w)

\* the volume slider on its own
SpecVolume == Init /\ [][NextVolume]_vars

\* -------------------------------------------------- actions of the panels
\* timers a panel may have pending
MaxPanelTimers == 2

ApplyPanels(ps) ==
  /\ \A p \in Panels : Len(ps[p].timers) <= MaxPanelTimers
  /\ panel' = ps /\ threw' = FALSE /\ UNCHANGED slider

\* playlistBtn / playlist click
OnTogglePlaylist ==
  ApplyPanels(togglePlaylist(panel)) /\ Aside("togglePlaylist", "")

\* volumeBtn / volume click
OnToggleVolume ==
  ApplyPanels(toggleVolume(panel)) /\ Aside("toggleVolume", "")

TogglePlaylist == OnTogglePlaylist /\ UNCHANGED clicks

ToggleVolume == OnToggleVolume /\ UNCHANGED clicks

\* a pending timer of panel p that is due first fires
Timeout(p) ==
  \E k \in 1 .. Len(panel[p].timers) :
    /\ DueFirst(panel[p].timers, k)
    /\ ApplyPanels([panel EXCEPT ![p] = timeout(@, k)])
    /\ Aside("timeout", p) /\ UNCHANGED clicks

NextPanels ==
  \/ TogglePlaylist
  \/ ToggleVolume
  \/ \E p \in Panels : Timeout(p)

\* the two panels on their own
SpecPanels == Init /\ [][NextPanels]_vars

\* ------------------------------------- transport, panels and slider together
\* a user interaction, of which a run has at most MaxClicks
Budget == clicks < MaxClicks /\ clicks' = clicks + 1

ClickTogglePlaylist == Budget /\ OnTogglePlaylist

ClickToggleVolume == Budget /\ OnToggleVolume

ClickPress(type) == Budget /\ OnPress(type)

ClickRelease(type) == Budget /\ OnRelease(type)

ClickMove(e, scrollWidth) == Budget /\ OnMove(e, scrollWidth)

ClickBarClick(layerX, scrollWidth) == Budget /\ OnBarClick(layerX, scrollWidth)

ClickResize(w) == Budget /\ OnResize(w)

NextFrame ==
  \/ Next
  \/ ClickTogglePlaylist
  \/ ClickToggleVolume
  \/ \E p \in Panels : Timeout(p)
  \/ \E type \in {"mousedown", "touchstart"} : ClickPress(type)
  \/ \E type \in {"mouseup", "touchend"} : ClickRelease(type)
  \/ \E e \in MoveEvents, scrollWidth \in ScrollWidths : ClickMove(e, scrollWidth)
  \/ \E scrollWidth \in ScrollWidths :
       \E layerX \in {0, scrollWidth \div 2, scrollWidth} :
         ClickBarClick(layerX, scrollWidth)
  \/ \E w \in Widths : ClickResize(w)

\* every listener of the page, within the budget of user interactions
SpecFrame == Init /\ [][NextFrame]_vars

\* ----------------------------------------------------------------- claims
PlayingTracks == {i \in Tracks : Playing(i)}

\* C1: in every reachable state at most one track's handle is playing.
AtMostOnePlaying == Cardinality(PlayingTracks) <= 1

\* a handle in a playing-or-loading state
Active(h) == HowlState(h) = "loading" \/ HowlPlaying(h)

\* C2: after skipTo(i) the handle of track i, and of no other track, is in
\* a playing-or-loading state.
SkipToLeavesOnlyTarget ==
  [][\A i \in Tracks :
       SkipTo(i) => \A j \in Tracks : Active(howl'[j]) <=> j = i]_vars

\* C3: currentIndex is always an index of the playlist.
IndexInRange == index \in Tracks

\* a skip to the previous track has wrapped from the first to the last one
IndexWrappedToLast ==
  /\ last = <<"skip", "prev">> /\ clicks = 1
  /\ index = NumTracks - 1 /\ howl[index] # NoHowl

\* C4: skip('next') moves currentIndex i to (i + 1) mod n and skip('prev')
\* to (i - 1 + n) mod n.
SkipWraps ==
  [][\A d \in {"next", "prev"} :
       Skip(d) => index' = IF d = "next" THEN (index + 1) % NumTracks
                           ELSE (index - 1 + NumTracks) % NumTracks]_vars

\* a skip to the next track has wrapped from the last to the first one
NextWrappedToFirst ==
  /\ last = <<"skip", "next">> /\ clicks = 2
  /\ index = 0 /\ howl[NumTracks - 1] # NoHowl /\ howl[0] # NoHowl
  /\ made[1] = 0

\* C5: a track's handle is constructed at most once, and a handle that is
\* present is never removed or replaced.
HandleMadeOnce ==
  [][\A i \in Tracks :
       /\ made'[i] <= 1
       /\ howl[i] # NoHowl => howl'[i] # NoHowl /\ made'[i] = made[i]]_vars

\* the first track's handle was played, skipped away from and played again
HandleReplayed ==
  /\ last = <<"skipTo", playlist[1]>> /\ clicks = 2
  /\ index = 0 /\ made[0] = 1 /\ made[1] = 1
  /\ howl[0].state = "loaded"

\* play has been requested of handle h
PlayRequested(h) ==
  \/ HowlState(h) = "loading"
       /\ \E k \in 1 .. Len(h.q) : h.q[k].event = "play"
  \/ HowlPlaying(h)

\* C6: when the end callback of the track at currentIndex i runs, the
\* player moves to (i + 1) mod n and requests play of that track's handle,
\* which it creates, loading, if it was absent.  (A step that leaves
\* last = <<"end", t>> is the run of the end callback of track t.)
EndAdvances ==
  [][\A i \in Tracks :
       (last' = <<"end", playlist[i + 1]>> /\ index = i)
         => LET j == (i + 1) % NumTracks IN
            /\ index' = j
            /\ PlayRequested(howl'[j])
            /\ howl[j] = NoHowl => HowlState(howl'[j]) = "loading"
                                     /\ made'[j] = 1]_vars

\* play() at currentIndex 0, then the end callback: currentIndex 1 with the
\* handle of track 1 loading
EndToEnd ==
  /\ last = <<"end", playlist[1]>> /\ clicks = 1
  /\ index = 1 /\ howl[1].state = "loading" /\ made[1] = 1
  /\ howl[2] = NoHowl

\* C7: seek is a no-op whenever the current track is not playing, a track
\* without a handle included: nothing of the player changes and no error
\* results.
SeekIdleNoOp ==
  [][\A per \in {"start", "later"} :
       (Seek(per) /\ ~CurPlaying) => UNCHANGED player /\ ~threw']_vars

\* C8: while the handle at currentIndex stays silent the step loop ends:
\* if from some point on it never plays, then from some point on no step
\* callback is pending.
StepLoopEnds == <>[](~CurPlaying) => <>[](raf = 0)

\* a step callback ran for a silent handle and left none pending
StepLoopEnded ==
  /\ last = <<"step", "">> /\ raf = 0
  /\ howl[index] # NoHowl /\ ~CurPlaying /\ ~threw

\* C9: a run of step schedules one further step if the handle at
\* currentIndex is playing at that moment, and none otherwise.
StepSchedulesIffPlaying ==
  [][Step => raf' = (raf - 1) + (IF CurPlaying THEN 1 ELSE 0)]_vars

\* a step callback ran for a playing handle and scheduled the next one
StepRescheduled ==
  /\ last = <<"step", "">> /\ raf >= 1 /\ CurPlaying
  /\ progress = "some%"

\* s mod 60, zero-padded to exactly two digits
TwoDigits(n) == <<Digit(n \div 10), Digit(n % 10)>>

\* C10: formatTime(s) is the decimal of floor(s / 60), a colon and s mod 60
\* in two digits; 0 gives "0:00", 65 gives "1:05" and 3599 gives "59:59".
FormatTimeIsMSS ==
  last = <<"formatTime", "">> =>
    /\ fmtOut = NumToString(fmtIn \div 60) \o <<":">> \o TwoDigits(fmtIn % 60)
    /\ fmtIn = 0 => fmtOut = <<"0", ":", "0", "0">>
    /\ fmtIn = 65 => fmtOut = <<"1", ":", "0", "5">>
    /\ fmtIn = 3599 => fmtOut = <<"5", "9", ":", "5", "9">>

\* formatTime(3599) has returned "59:59"
FormatTimeLastSecond ==
  /\ last = <<"formatTime", "">> /\ fmtIn = 3599
  /\ fmtOut = <<"5", "9", ":", "5", "9">>

\* volume was called by the step that ran last
VolumeCalled ==
  \/ last[1] = "barClick"
  \/ last[1] = "move" /\ sliderDown /\ ~threw

\* volume(0) or volume(1) was called by the step that ran last
VolumeEndCalled ==
  VolumeCalled /\ volArg \in {<<Frac(0, 1)>>, <<Frac(1, 1)>>}

\* C11: for every viewport width W, volume(0) and volume(1) leave the
\* slider thumb at a left offset within [0, W * 0.95 - 25] pixels.
SliderOffsetClamped ==
  VolumeEndCalled =>
    /\ LeFrac(Frac(0, 1), sliderLeft[1])
    /\ LeFrac(sliderLeft[1], Frac(95 * innerWidth - 2500, 100))

\* C11, amended: volume(0) leaves the thumb at W * 0.05 - 25 pixels and
\* volume(1) at W * 0.95 - 25 pixels, so both offsets lie within
\* [W * 0.05 - 25, W * 0.95 - 25]; the lower end is negative when W < 500.
SliderOffsetRange ==
  VolumeEndCalled =>
    /\ sliderLeft[1] = IF volArg[1] = Frac(0, 1)
                       THEN Frac(5 * innerWidth - 2500, 100)
                       ELSE Frac(95 * innerWidth - 2500, 100)
    /\ LeFrac(Frac(5 * innerWidth - 2500, 100), sliderLeft[1])
    /\ LeFrac(sliderLeft[1], Frac(95 * innerWidth - 2500, 100))

\* volume(0) in a viewport 320 pixels wide: the thumb is at -9 pixels
SliderOffsetNegative ==
  /\ VolumeEndCalled /\ volArg = <<Frac(0, 1)>>
  /\ innerWidth = 320 /\ sliderLeft = <<Frac(-9, 1)>>

\* C12: a move changes the volume only while the drag flag is set; the flag
\* is set by a press and by nothing else, cleared by a release and by
\* nothing else; every value a move passes to volume lies in [0, 1].
DragGuardsVolume ==
  [][/\ (last'[1] = "move" /\ ~sliderDown)
          => UNCHANGED <<vol, sliderLeft, volArg>>
     /\ last'[1] = "press" => sliderDown'
     /\ last'[1] = "release" => ~sliderDown'
     /\ sliderDown' # sliderDown
          => last'[1] = (IF sliderDown' THEN "press" ELSE "release")
     /\ (last'[1] = "move" /\ sliderDown /\ ~threw')
          => InUnit(volArg'[1])]_vars

\* a move during a drag has set a volume strictly between 0 and 1
DragSetVolume ==
  /\ last[1] = "move" /\ sliderDown /\ ~threw
  /\ volArg = <<vol>> /\ 0 < vol.n /\ vol.n < vol.d

\* the step that ran last was the toggle of panel p
Toggled(p) ==
  last = <<(IF p = "playlist" THEN "togglePlaylist" ELSE "toggleVolume"), "">>

ShowTimer == [delay |-> 0, display |-> "block"]

HideTimer == [delay |-> 500, display |-> "none"]

\* C13: a toggle of a hidden panel sets the class to fadein and leaves the
\* display to a zero-delay timer; a toggle of a displayed panel sets the
\* class to fadeout at once and leaves the display to a 500ms timer, and a
\* displayed panel stays displayed until a 500ms timer fires and hides it.
ToggleAsymmetry ==
  [][\A p \in Panels :
       /\ (Toggled(p)' /\ panel[p].display # "block")
            => /\ panel'[p].className = "fadein"
               /\ panel'[p].display = panel[p].display
               /\ panel'[p].timers = Append(panel[p].timers, ShowTimer)
       /\ (Toggled(p)' /\ panel[p].display = "block")
            => /\ panel'[p].className = "fadeout"
               /\ panel'[p].display = "block"
               /\ panel'[p].timers = Append(panel[p].timers, HideTimer)
       /\ (panel[p].display = "block" /\ panel'[p].display # "block")
            => /\ last' = <<"timeout", p>>
               /\ \E k \in 1 .. Len(panel[p].timers) :
                    /\ panel[p].timers[k] = HideTimer
                    /\ panel'[p].timers = Without(panel[p].timers, k)
       /\ (panel[p].display # "block" /\ panel'[p].display = "block")
            => /\ last' = <<"timeout", p>>
               /\ \E k \in 1 .. Len(panel[p].timers) :
                    /\ panel[p].timers[k] = ShowTimer
                    /\ panel'[p].timers = Without(panel[p].timers, k)]_vars

\* the displayed playlist panel was toggled: it fades out, still displayed,
\* with the 500ms timer pending
PanelFadingOut ==
  /\ Toggled("playlist")
  /\ panel["playlist"] = [display |-> "block", className |-> "fadeout",
                          timers |-> <<HideTimer>>]

\* C14: whenever the pause button is visible, the handle at currentIndex
\* exists, so a click on it never reaches pause() with an absent handle.
PauseVisibleHasHandle == pauseBtn = "block" => Sound(howl, index) # NoHowl

\* the play callback of track 0 showed the pause button after the player
\* had moved on to track 1, whose handle is still loading
PauseShownByStalePlay ==
  /\ last = <<"play", playlist[1]>> /\ pauseBtn = "block"
  /\ index = 1 /\ howl[1].state = "loading"

\* C15: currentIndex changes only in skipTo, reached from skip, a click on
\* a playlist entry or the end callback; every other listener or callback
\* leaves it alone, and play() without an index neither stops nor creates
\* the handle of any track but the current one.
IndexFrame ==
  [][/\ index' # index => last'[1] \in {"skip", "skipTo", "end"}
     /\ Play => /\ index' = index
                /\ \A j \in Tracks \ {index} :
                     howl'[j] = howl[j] /\ made'[j] = made[j]]_vars

\* play() without an index after a skip to track 1: it plays track 1 again
\* and the first track still has no handle
PlayedCurrentAfterSkip ==
  /\ last = <<"play", "">> /\ clicks = 2 /\ ~threw
  /\ index = 1 /\ made[1] = 1 /\ howl[0] = NoHowl /\ howl[2] = NoHowl

\* C16: at most one step callback is pending on the animation-frame queue.
StepPendingAtMostOne == raf <= 1

\* C17: once a panel has no timer pending, it is displayed if and only if
\* its class is fadein.
PanelSettled ==
  \A p \in Panels :
    panel[p].timers = <<>>
      => (panel[p].display = "block" <=> panel[p].className = "fadein")

\* C18: the play button and the pause button are never both visible.
ButtonsExclusive == ~(playBtn = "block" /\ pauseBtn = "block")

\* handle h is loading with a play request queued
LoadingAfterPlay(h) ==
  /\ HowlState(h) = "loading"
  /\ \E k \in 1 .. Len(h.q) : h.q[k].event = "play"

\* C19: whenever the handle at currentIndex is loading after a play
\* request, the loading indicator is shown and the play and pause buttons
\* are hidden (so no callback of another track's handle hides the one or
\* shows the other).
LoadingShownWhileLoading ==
  LoadingAfterPlay(Sound(howl, index))
    => loading = "block" /\ playBtn = "none" /\ pauseBtn = "none"

\* C20: a step callback always finds the handle at currentIndex: a step is
\* scheduled only by a play or seek callback of a handle (or by the step it
\* continues), currentIndex only moves to a track whose handle exists, and
\* no step ends in a TypeError.
StepHasHandle ==
  [][/\ Step => Sound(howl, index) # NoHowl /\ ~threw'
     /\ raf' > raf => \E i \in Tracks : last' \in {<<"play", playlist[i + 1]>>,
                                                   <<"seek", playlist[i + 1]>>}
     /\ index' # index => Sound(howl', index') # NoHowl
     /\ raf' > 0 => Sound(howl', index') # NoHowl]_vars

\* a step started by track 0's play callback ran after the player had
\* moved to track 1, and read the handle of track 1
StepAfterSkip ==
  /\ last = <<"step", "">> /\ ~threw /\ clicks = 2
  /\ index = 1 /\ howl[0] # NoHowl /\ howl[1] # NoHowl

====
